---- MODULE Spec2Model ----
(***************************************************************************)
(* Model of chatbot.py ("Rapid Bot"): a Streamlit script whose session     *)
(* state holds the chat history (messages), the user preferences           *)
(* (user_prefs) and the key awaiting_preference.  Every user interaction   *)
(* (a chat input, a sidebar button) is one run of the whole script; a      *)
(* button handler that calls st.rerun() is followed by one more run.       *)
(*                                                                         *)
(* Text is modelled as a sequence of one-character strings, so that        *)
(* lower(), split(), replace(), strip() and the `in` substring test work   *)
(* on characters as they do in Python.  A response string is modelled as   *)
(* the sequence of the segments it is concatenated from.                   *)
(***************************************************************************)
EXTENDS Integers, Sequences, FiniteSets, TLC

VARIABLES started, messages, user_prefs, awaiting_preference, last

vars == <<started, messages, user_prefs, awaiting_preference, last>>

(***************************************************************************)
(* Bounds                                                                  *)
(***************************************************************************)
\* the chat history is unbounded in the program; a turn is taken only while
\* its two messages still fit
MaxMsgs == 3
\* longest task list the task provider returns
MaxTasks == 6

(***************************************************************************)
(* Python string operations, on sequences of characters                    *)
(***************************************************************************)
UpperChars == <<"A","B","C","D","E","F","G","H","I","J","K","L","M",
                "N","O","P","Q","R","S","T","U","V","W","X","Y","Z">>

LowerChars == <<"a","b","c","d","e","f","g","h","i","j","k","l","m",
                "n","o","p","q","r","s","t","u","v","w","x","y","z">>

Whitespace == {" ", "\t", "\n"}

\* the lower-case letter of each upper-case letter
ToLower ==
    [c \in {UpperChars[i] : i \in 1..Len(UpperChars)} |->
        LowerChars[CHOOSE i \in 1..Len(UpperChars) : UpperChars[i] = c]]

LowerChar(c) == IF c \in DOMAIN ToLower THEN ToLower[c] ELSE c

\* str.lower()
Lower(s) == [i \in 1..Len(s) |-> LowerChar(s[i])]

MatchAt(s, sub, i) ==
    /\ i >= 1
    /\ i + Len(sub) - 1 <= Len(s)
    /\ SubSeq(s, i, i + Len(sub) - 1) = sub

\* sub in s
Contains(s, sub) == \E i \in 1..(Len(s) + 1) : MatchAt(s, sub, i)

\* s.find(sub, from), 1-based; 0 when there is no occurrence
Find(s, sub, from) ==
    LET at == { i \in from..(Len(s) + 1) : MatchAt(s, sub, i) }
    IN  IF at = {} THEN 0 ELSE CHOOSE i \in at : \A j \in at : i <= j

\* s.split(sep)[1], defined when sep occurs in s: the text between the
\* first occurrence of sep and the next one (or the end of s)
SplitSecond(s, sep) ==
    LET first == Find(s, sep, 1)
        start == first + Len(sep)
        next  == Find(s, sep, start)
    IN  IF next = 0 THEN SubSeq(s, start, Len(s))
                    ELSE SubSeq(s, start, next - 1)

\* s.strip()
Strip(s) ==
    IF \A i \in 1..Len(s) : s[i] \in Whitespace
    THEN <<>>
    ELSE LET lo == CHOOSE i \in 1..Len(s) :
                      /\ s[i] \notin Whitespace
                      /\ \A j \in 1..(i - 1) : s[j] \in Whitespace
             hi == CHOOSE i \in 1..Len(s) :
                      /\ s[i] \notin Whitespace
                      /\ \A j \in (i + 1)..Len(s) : s[j] \in Whitespace
         IN  SubSeq(s, lo, hi)

\* s.replace(old, ""), old non-empty
RECURSIVE RemoveAll(_, _)
RemoveAll(s, old) ==
    LET i == Find(s, old, 1)
    IN  IF i = 0 THEN s
        ELSE SubSeq(s, 1, i - 1)
               \o RemoveAll(SubSeq(s, i + Len(old), Len(s)), old)

DigitChars == <<"0","1","2","3","4","5","6","7","8","9">>

\* str(n) for a natural number
RECURSIVE IntStr(_)
IntStr(n) ==
    IF n < 10 THEN <<DigitChars[n + 1]>>
    ELSE IntStr(n \div 10) \o <<DigitChars[(n % 10) + 1]>>

(***************************************************************************)
(* Literals of the program                                                 *)
(***************************************************************************)
KW_MY_NAME_IS == <<"m","y"," ","n","a","m","e"," ","i","s">>

KW_SET_LOCATION_TO == <<"s","e","t"," ","l","o","c","a","t","i","o","n"," ","t","o">>

KW_WEATHER == <<"w","e","a","t","h","e","r">>

KW_TASKS == <<"t","a","s","k","s">>

KW_TODO == <<"t","o","d","o">>

KW_WHO_AM_I == <<"w","h","o"," ","a","m"," ","i">>

KW_HELP == <<"h","e","l","p">>

\* content of the user message a quick action appends
QA_WEATHER == <<"w","e","a","t","h","e","r">>

QA_TASKS == <<"s","h","o","w"," ","m","y"," ","t","a","s","k","s">>

\* str(None)
PY_NONE == <<"N","o","n","e">>

\* current.get('uv', 'N/A')
NOT_AVAILABLE == <<"N","/","A">>

HTTP_OK == 200

\* tasks[:5]
TaskLimit == 5

(***************************************************************************)
(* Values                                                                  *)
(***************************************************************************)
\* an optional text: Python None, or a str
None == [set |-> FALSE, txt |-> <<>>]

Some(s) == [set |-> TRUE, txt |-> s]

\* f"{v}" of an optional text
PyStr(v) == IF v.set THEN v.txt ELSE PY_NONE

\* awaiting_preference: "name", "location", or the key is absent
ABSENT == "absent"

\* a segment of a response string
Part(t, txt) == [t |-> t, txt |-> txt]

Msg(role, content) == [role |-> role, content |-> content]

UserText(s) == <<Part("user_text", s)>>

ACK == <<Part("preferences_updated", <<>>)>>

SEP == <<Part("blank_line", <<>>)>>

NAME_QUESTION == <<Part("ask_name", <<>>)>>

LocationQuestion(name) == <<Part("ask_location", PyStr(name))>>

HELP_TEXT == <<Part("help", <<>>)>>

\* the session-state entries generate_response reads and writes
State(p, a) == [prefs |-> p, awaiting |-> a]

(***************************************************************************)
(* What an external service does when it is called.  One record shape for  *)
(* the three services; a field a service does not use keeps its default.   *)
(*   svc    "weather" | "tasks" | "gen" | "none" (no call is made)         *)
(*   kind   "exception": the request raised; "not_json": response.json()   *)
(*          raised; "body": a parsed body; "text": a model completion      *)
(*   status HTTP status code                                               *)
(*   wdata  shape of the parsed weather body                               *)
(*   isList, tasks  the parsed task body                                   *)
(*   text   error detail, provider message, condition or completion        *)
(***************************************************************************)
NoWData == [shape |-> "dict", error |-> "absent", current |-> "absent", uv |-> FALSE]

Outcome(svc, kind, status, wdata, isList, tasks, text) ==
    [svc |-> svc, kind |-> kind, status |-> status, wdata |-> wdata,
     isList |-> isList, tasks |-> tasks, text |-> text]

NoCall == Outcome("none", "none", 0, NoWData, FALSE, <<>>, <<>>)

T_TIMEOUT == <<"t","i","m","e","o","u","t">>

T_NO_JSON == <<"n","o"," ","j","s","o","n">>

T_KEYERROR == <<"K","e","y","E","r","r","o","r">>

T_TYPEERROR == <<"T","y","p","e","E","r","r","o","r">>

T_SUNNY == <<"S","u","n","n","y">>

T_NO_MATCH == <<"n","o"," ","m","a","t","c","h">>

T_UV == <<"5">>

T_ANSWER == <<"o","k">>

WeatherBody(wdata, text) == Outcome("weather", "body", HTTP_OK, wdata, FALSE, <<>>, text)

WeatherOutcomes ==
    { Outcome("weather", "exception", 0, NoWData, FALSE, <<>>, T_TIMEOUT),
      Outcome("weather", "not_json", HTTP_OK, NoWData, FALSE, <<>>, T_NO_JSON),
      WeatherBody([shape |-> "dict", error |-> "message", current |-> "absent", uv |-> FALSE], T_NO_MATCH),
      WeatherBody([shape |-> "dict", error |-> "absent", current |-> "complete", uv |-> TRUE], T_SUNNY),
      WeatherBody([shape |-> "dict", error |-> "absent", current |-> "complete", uv |-> FALSE], T_SUNNY),
      WeatherBody([shape |-> "dict", error |-> "absent", current |-> "partial", uv |-> TRUE], T_SUNNY),
      WeatherBody([shape |-> "list", error |-> "absent", current |-> "absent", uv |-> FALSE], <<>>) }

\* an entry of the task list: a dict with or without 'content', or no dict
Entry(isDict, hasContent, content) ==
    [isDict |-> isDict, hasContent |-> hasContent, content |-> content]

TaskEntries ==
    { Entry(TRUE, TRUE, <<"a">>), Entry(TRUE, TRUE, <<"b">>),
      Entry(TRUE, FALSE, <<>>), Entry(FALSE, FALSE, <<>>) }

TaskLists(maxLen) == UNION { [1..n -> TaskEntries] : n \in 0..maxLen }

TaskBody(tasks) == Outcome("tasks", "body", HTTP_OK, NoWData, TRUE, tasks, <<>>)

TaskFailures ==
    { Outcome("tasks", "exception", 0, NoWData, FALSE, <<>>, T_TIMEOUT),
      Outcome("tasks", "body", 401, NoWData, FALSE, <<>>, <<>>),
      Outcome("tasks", "not_json", HTTP_OK, NoWData, FALSE, <<>>, T_NO_JSON),
      Outcome("tasks", "body", HTTP_OK, NoWData, FALSE, <<>>, <<>>) }

\* every outcome of the task provider, with lists up to MaxTasks entries
TaskOutcomesAll == TaskFailures \cup { TaskBody(l) : l \in TaskLists(MaxTasks) }

\* the outcomes used where the task lookup is one step among others
TaskOutcomes ==
    TaskFailures \cup { TaskBody(<<>>), TaskBody(<<Entry(TRUE, TRUE, <<"a">>)>>) }

GenOutcomes ==
    { Outcome("gen", "text", HTTP_OK, NoWData, FALSE, <<>>, T_ANSWER),
      Outcome("gen", "exception", 0, NoWData, FALSE, <<>>, T_TIMEOUT) }

\* the outcomes of the service called first in calls
Replies(calls) ==
    IF calls = <<>> THEN {NoCall}
    ELSE IF calls[1].svc = "weather" THEN WeatherOutcomes
    ELSE IF calls[1].svc = "tasks" THEN TaskOutcomes
    ELSE GenOutcomes

(***************************************************************************)
(* A function call returns a value or raises: Return / Raise               *)
(***************************************************************************)
Return(v) == [raised |-> FALSE, exc |-> <<>>, value |-> v]

Raise(e) == [raised |-> TRUE, exc |-> e, value |-> <<>>]

\* body of the try block of get_weather (lines 49-62)
GetWeatherTry(location, out) ==
    IF out.kind = "exception" THEN Raise(out.text)
    ELSE IF out.kind = "not_json" THEN Raise(out.text)
    ELSE IF out.wdata.shape = "dict" /\ out.wdata.error = "message"
         THEN Return(<<Part("weather_provider_error", out.text)>>)
    ELSE IF out.wdata.shape = "dict" /\ out.wdata.error = "no_message"
         THEN Raise(T_KEYERROR)
    ELSE IF out.wdata.shape # "dict" THEN Raise(T_TYPEERROR)
    ELSE IF out.wdata.current # "complete" THEN Raise(T_KEYERROR)
    ELSE Return(<<Part("weather_report", PyStr(location)),
                  Part("condition", out.text),
                  Part("uv", IF out.wdata.uv THEN T_UV ELSE NOT_AVAILABLE)>>)

\* get_weather without its except clause
get_weather_no_except(location, out) == GetWeatherTry(location, out)

\* get_weather: the try block and its except clause
get_weather(location, out) ==
    LET r == GetWeatherTry(location, out)
    IN  IF r.raised THEN Return(<<Part("weather_exception", r.exc)>>)
        ELSE r

\* tasks[:5] without the slice
FirstN_all(seq, n) == seq

\* tasks[:5]
FirstN(seq, n) == SubSeq(seq, 1, IF Len(seq) < n THEN Len(seq) ELSE n)

\* the loop of lines 92-97
RECURSIVE Bullets(_)
Bullets(tasks) ==
    IF tasks = <<>> THEN <<>>
    ELSE (IF Head(tasks).isDict /\ Head(tasks).hasContent
          THEN <<Part("bullet", Head(tasks).content)>>
          ELSE <<>>) \o Bullets(Tail(tasks))

\* body of the outer try block of get_tasks (lines 72-102)
GetTasksTry(out) ==
    IF out.kind = "exception" THEN Raise(out.text)
    ELSE IF out.status # HTTP_OK
         THEN Return(<<Part("tasks_status_error", IntStr(out.status))>>)
    ELSE IF out.kind = "not_json" THEN Return(<<Part("tasks_invalid_format", <<>>)>>)
    ELSE IF ~out.isList THEN Return(<<Part("tasks_unexpected_format", <<>>)>>)
    ELSE LET task_list == Bullets(FirstN(out.tasks, TaskLimit))
         IN  IF task_list = <<>> THEN Return(<<Part("no_valid_tasks", <<>>)>>)
             ELSE Return(<<Part("tasks_header", <<>>)>> \o task_list)

\* get_tasks: the try block and its except clause
get_tasks(out) ==
    LET r == GetTasksTry(out)
    IN  IF r.raised THEN Return(<<Part("tasks_exception", r.exc)>>)
        ELSE r

\* lines 190-194
GenerateContent(prompt, out) ==
    IF out.kind = "exception"
    THEN Return(<<Part("gen_error", out.text)>>)
    ELSE Return(<<Part("gen_text", out.text)>>)

\* a call of an external service, as recorded in last.calls
Call(svc, arg) == [svc |-> svc, arg |-> arg]

(***************************************************************************)
(* Preference store                                                        *)
(***************************************************************************)
\* update_preferences without the deletion of awaiting_preference
update_preferences_keep_cursor(st, key, value) ==
    State([st.prefs EXCEPT ![key] = Some(value)], st.awaiting)

\* update_preferences(updates), updates = {key: value}: the dict update,
\* then the deletion of awaiting_preference when the key is present
update_preferences(st, key, value) ==
    State([st.prefs EXCEPT ![key] = Some(value)], ABSENT)

\* ask_preference_questions testing the location before the name
ask_preference_questions_location_first(st) ==
    IF ~st.prefs.location.set
    THEN [st |-> State(st.prefs, "location"), none |-> FALSE,
          q |-> LocationQuestion(st.prefs.name)]
    ELSE IF ~st.prefs.name.set
    THEN [st |-> State(st.prefs, "name"), none |-> FALSE, q |-> NAME_QUESTION]
    ELSE [st |-> st, none |-> TRUE, q |-> <<>>]

\* ask_preference_questions testing `not value` in place of `value is None`
ask_preference_questions_truthy(st) ==
    IF ~st.prefs.name.set \/ st.prefs.name.txt = <<>>
    THEN [st |-> State(st.prefs, "name"), none |-> FALSE, q |-> NAME_QUESTION]
    ELSE IF ~st.prefs.location.set \/ st.prefs.location.txt = <<>>
    THEN [st |-> State(st.prefs, "location"), none |-> FALSE,
          q |-> LocationQuestion(st.prefs.name)]
    ELSE [st |-> st, none |-> TRUE, q |-> <<>>]

\* ask_preference_questions without the assignment of line 123
ask_preference_questions_no_cursor(st) ==
    IF ~st.prefs.name.set
    THEN [st |-> State(st.prefs, "name"), none |-> FALSE, q |-> NAME_QUESTION]
    ELSE IF ~st.prefs.location.set
    THEN [st |-> st, none |-> FALSE, q |-> LocationQuestion(st.prefs.name)]
    ELSE [st |-> st, none |-> TRUE, q |-> <<>>]

\* ask_preference_questions(): the state it leaves and the question it
\* returns (none = TRUE for Python None)
ask_preference_questions(st) ==
    IF ~st.prefs.name.set
    THEN [st |-> State(st.prefs, "name"), none |-> FALSE, q |-> NAME_QUESTION]
    ELSE IF ~st.prefs.location.set
    THEN [st |-> State(st.prefs, "location"), none |-> FALSE,
          q |-> LocationQuestion(st.prefs.name)]
    ELSE [st |-> st, none |-> TRUE, q |-> <<>>]

(***************************************************************************)
(* generate_response(prompt): the branch it takes, the response string it  *)
(* returns (or that it raised), the state it leaves and the external calls *)
(* it made.  out is what the external service does if one is called.       *)
(***************************************************************************)
Result(branch, r, st, calls) ==
    [branch |-> branch, raised |-> r.raised, response |-> r.value,
     st |-> st, calls |-> calls]

\* lines 144-154
PendingBranch(st, prompt) ==
    LET up == update_preferences(st, st.awaiting, prompt)
        nq == ask_preference_questions(up)
    IN  Result("pending", Return(IF nq.none THEN ACK ELSE ACK \o SEP \o nq.q),
               nq.st, <<>>)

\* the weather branch storing the location it was asked about
WeatherBranch_remember(st, prompt, out) ==
    LET stripped == Strip(RemoveAll(Lower(prompt), KW_WEATHER))
        location == IF stripped = <<>> THEN st.prefs.location ELSE Some(stripped)
    IN  Result("weather", get_weather(location, out),
               State([st.prefs EXCEPT !.location = location], st.awaiting),
               <<Call("weather", PyStr(location))>>)

\* lines 172-176
WeatherBranch(st, prompt, out) ==
    LET stripped == Strip(RemoveAll(Lower(prompt), KW_WEATHER))
        location == IF stripped = <<>> THEN st.prefs.location ELSE Some(stripped)
    IN  Result("weather", get_weather(location, out), st,
               <<Call("weather", PyStr(location))>>)

\* the command chain testing 'tasks'/'todo' before 'weather'
Commands_tasks_first(st, prompt, out) ==
    LET pq == ask_preference_questions(st)
        lp == Lower(prompt)
    IN  IF ~pq.none THEN Result("guard", Return(pq.q), pq.st, <<>>)
        ELSE IF Contains(lp, KW_TASKS) \/ Contains(lp, KW_TODO)
             THEN Result("tasks", get_tasks(out), pq.st, <<Call("tasks", <<>>)>>)
        ELSE IF Contains(lp, KW_WEATHER) THEN WeatherBranch(pq.st, prompt, out)
        ELSE IF Contains(lp, KW_WHO_AM_I)
             THEN Result("who_am_i",
                         Return(<<Part("you_are", PyStr(pq.st.prefs.name)),
                                  Part("located_in", PyStr(pq.st.prefs.location))>>),
                         pq.st, <<>>)
        ELSE IF Contains(lp, KW_HELP)
             THEN Result("help", Return(HELP_TEXT), pq.st, <<>>)
        ELSE Result("fallback", GenerateContent(prompt, out), pq.st,
                    <<Call("gen", prompt)>>)

\* lines 166-194: everything below the manual preference updates
Commands(st, prompt, out) ==
    LET pq == ask_preference_questions(st)
        lp == Lower(prompt)
    IN  IF ~pq.none THEN Result("guard", Return(pq.q), pq.st, <<>>)
        ELSE IF Contains(lp, KW_WEATHER) THEN WeatherBranch(pq.st, prompt, out)
        ELSE IF Contains(lp, KW_TASKS) \/ Contains(lp, KW_TODO)
             THEN Result("tasks", get_tasks(out), pq.st, <<Call("tasks", <<>>)>>)
        ELSE IF Contains(lp, KW_WHO_AM_I)
             THEN Result("who_am_i",
                         Return(<<Part("you_are", PyStr(pq.st.prefs.name)),
                                  Part("located_in", PyStr(pq.st.prefs.location))>>),
                         pq.st, <<>>)
        ELSE IF Contains(lp, KW_HELP)
             THEN Result("help", Return(HELP_TEXT), pq.st, <<>>)
        ELSE Result("fallback", GenerateContent(prompt, out), pq.st,
                    <<Call("gen", prompt)>>)

\* the manual update writing the name whatever the phrase
ManualBranch_name_key(st, key, kw, lp) ==
    Result(IF key = "name" THEN "my_name_is" ELSE "set_location_to", Return(ACK),
           update_preferences(st, "name", Strip(SplitSecond(lp, kw))), <<>>)

\* lines 160-161 and 163-164: a manual preference update
ManualBranch(st, key, kw, lp) ==
    Result(IF key = "name" THEN "my_name_is" ELSE "set_location_to", Return(ACK),
           update_preferences(st, key, Strip(SplitSecond(lp, kw))), <<>>)

generate_response(st, prompt, out) ==
    LET lp == Lower(prompt)
    IN  IF st.awaiting # ABSENT THEN PendingBranch(st, prompt)
        ELSE IF Contains(lp, KW_MY_NAME_IS)
             THEN ManualBranch(st, "name", KW_MY_NAME_IS, lp)
        ELSE IF Contains(lp, KW_SET_LOCATION_TO)
             THEN ManualBranch(st, "location", KW_SET_LOCATION_TO, lp)
        ELSE Commands(st, prompt, out)

\* handle_quick_action(action)
handle_quick_action(st, action, out) ==
    IF action = "weather"
    THEN Result("quick_weather", get_weather(st.prefs.location, out), st,
                <<Call("weather", PyStr(st.prefs.location))>>)
    ELSE IF action = "tasks"
    THEN Result("quick_tasks", get_tasks(out), st, <<Call("tasks", <<>>)>>)
    ELSE Result("unknown_action", Return(<<Part("unknown_action", <<>>)>>), st, <<>>)

\* out is an outcome of the service res called, or NoCall if it called none
Answers(out, res) ==
    IF res.calls = <<>> THEN out = NoCall ELSE out.svc = res.calls[1].svc

(***************************************************************************)
(* The script                                                              *)
(***************************************************************************)
\* lines 215-220: the initial preference question
InitialQuestion(st, msgs) ==
    IF ~st.prefs.name.set /\ ~st.prefs.location.set /\ msgs = <<>>
    THEN LET iq == ask_preference_questions(st)
         IN  [st |-> iq.st, msgs |-> <<Msg("assistant", iq.q)>>]
    ELSE [st |-> st, msgs |-> msgs]

\* what the last run of the script did
\* what the last run of the script did; again: it repeated the run before it
Last(op, again, prompt, out, res) ==
    [op |-> op, again |-> again, prompt |-> prompt, out |-> out,
     branch |-> res.branch, raised |-> res.raised, response |-> res.response,
     calls |-> res.calls]

NoResult == Result("none", Return(<<>>), State([name |-> None, location |-> None], "name"), <<>>)

Current == State(user_prefs, awaiting_preference)

\* the run of the script ends in state r.st with history r.msgs
Finish(r, l) ==
    /\ user_prefs' = r.st.prefs
    /\ awaiting_preference' = r.st.awaiting
    /\ messages' = r.msgs
    /\ last' = l

\* lines 18-26: the session state before the first run
Init ==
    /\ started = FALSE
    /\ messages = <<>>
    /\ user_prefs = [name |-> None, location |-> None]
    /\ awaiting_preference = "name"
    /\ last = Last("init", FALSE, <<>>, NoCall, NoResult)

\* the script has run and the history has room for one more turn
Ready == started /\ Len(messages) + 2 <= MaxMsgs

\* the first run of the script: no input, no button
FirstRun ==
    /\ ~started
    /\ started' = TRUE
    /\ Finish(InitialQuestion(Current, messages), Last("first_run", FALSE, <<>>, NoCall, NoResult))

\* lines 199-220: a run with a chat input.  An exception out of
\* generate_response ends the run after the user message was appended.
Utterance(prompt, out) ==
    /\ Ready
    /\ LET res == generate_response(Current, prompt, out)
           m1  == Append(messages, Msg("user", UserText(prompt)))
       IN  /\ Answers(out, res)
           /\ Finish(IF res.raised THEN [st |-> res.st, msgs |-> m1]
                     ELSE InitialQuestion(res.st, Append(m1, Msg("assistant", res.response))),
                     Last("utterance", FALSE, prompt, out, res))
    /\ UNCHANGED started

\* lines 229-237: a run with a quick-action button pressed, and the rerun
QuickAction(action, text, out) ==
    /\ Ready
    /\ LET top == InitialQuestion(Current, messages)
           res == handle_quick_action(top.st, action, out)
           m1  == Append(top.msgs, Msg("user", UserText(text)))
       IN  /\ Answers(out, res)
           /\ Finish(IF res.raised THEN [st |-> res.st, msgs |-> m1]
                     ELSE InitialQuestion(res.st, Append(m1, Msg("assistant", res.response))),
                     Last(action, FALSE, text, out, res))
    /\ UNCHANGED started

WeatherButton(out) == QuickAction("weather", QA_WEATHER, out)

TasksButton(out) == QuickAction("tasks", QA_TASKS, out)

\* the clear button resetting the preferences with the history
ClearChat_resets_prefs ==
    /\ started
    /\ Finish(InitialQuestion(State([name |-> None, location |-> None], "name"), <<>>),
              Last("clear", last.op = "clear", <<>>, NoCall, NoResult))
    /\ UNCHANGED started

\* lines 240-242: a run with the clear button pressed, and the rerun
ClearChat ==
    /\ started
    /\ LET top == InitialQuestion(Current, messages)
       IN  Finish(InitialQuestion(top.st, <<>>), Last("clear", last.op = "clear", <<>>, NoCall, NoResult))
    /\ UNCHANGED started

(***************************************************************************)
(* Utterances                                                              *)
(***************************************************************************)
SP == <<" ">>

P_AL == <<"A","l">>

P_ROME == <<"R","o","m","e">>

Prompts ==
    { P_AL,
      <<"M","y"," ","N","a","m","e"," ","I","s"," ","B","o">>,
      KW_MY_NAME_IS \o SP,
      KW_SET_LOCATION_TO \o SP \o P_ROME,
      KW_MY_NAME_IS \o SP \o KW_SET_LOCATION_TO \o SP \o KW_WEATHER,
      <<"W","e","a","t","h","e","r">>,
      KW_TASKS \o SP \o KW_WEATHER,
      KW_TODO \o SP \o KW_WHO_AM_I,
      KW_HELP \o SP \o <<"W","h","o"," ","a","m"," ","I">>,
      KW_HELP }

\* the external calls generate_response makes do not depend on their outcome
CallsOf(st, prompt) == generate_response(st, prompt, NoCall).calls

Next ==
    \/ FirstRun
    \/ /\ Ready
       /\ \E p \in Prompts : \E out \in Replies(CallsOf(Current, p)) :
             Utterance(p, out)
    \/ /\ Ready
       /\ \E out \in WeatherOutcomes : WeatherButton(out)
    \/ /\ Ready
       /\ \E out \in TaskOutcomes : TasksButton(out)
    \/ ClearChat

Spec == Init /\ [][Next]_vars

\* the task lookup alone, over every outcome of the task provider
NextTasks ==
    \/ FirstRun
    \/ /\ Ready
       /\ \E out \in TaskOutcomesAll : TasksButton(out)
    \/ ClearChat

SpecTasks == Init /\ [][NextTasks]_vars

(***************************************************************************)
(* Properties                                                              *)
(***************************************************************************)
BothSet == user_prefs.name.set /\ user_prefs.location.set

NoneSet == ~user_prefs.name.set /\ ~user_prefs.location.set

\* the response string is or contains a preference question
HasQuestion(response) ==
    \E i \in 1..Len(response) : response[i].t \in {"ask_name", "ask_location"}

EndsWith(seq, tail) ==
    /\ Len(seq) >= Len(tail)
    /\ SubSeq(seq, Len(seq) - Len(tail) + 1, Len(seq)) = tail

\* C1: in a fresh session the first message is the name-question; the
\* utterance received while the name is unset is stored verbatim as the name
\* and its response carries the location-question; the utterance received
\* while only the location is unset is stored verbatim as the location;
\* from then on ask_preference_questions() returns no question.
C1_GuidedFlow ==
    /\ [][last'.op = "first_run" => messages' = <<Msg("assistant", NAME_QUESTION)>>]_vars
    /\ [][(last'.op = "utterance" /\ ~user_prefs.name.set) =>
            /\ user_prefs' = [name |-> Some(last'.prompt), location |-> None]
            /\ EndsWith(last'.response, LocationQuestion(Some(last'.prompt)))]_vars
    /\ [][(last'.op = "utterance" /\ user_prefs.name.set /\ ~user_prefs.location.set) =>
            /\ user_prefs' = [user_prefs EXCEPT !.location = Some(last'.prompt)]
            /\ ~HasQuestion(last'.response)]_vars
    /\ [][BothSet => (BothSet' /\ ask_preference_questions(Current').none)]_vars

C1_Witness ==
    /\ last.op = "utterance"
    /\ last.branch = "pending"
    /\ BothSet
    /\ user_prefs.location = Some(last.prompt)
    /\ ask_preference_questions(Current).none

\* C2: between turns, awaiting = NAME only while the name is unset,
\* awaiting = LOCATION only while the name is set and the location is unset,
\* and the key is absent once both are set.
C2_AwaitingInvariant ==
    /\ awaiting_preference = "name" => ~user_prefs.name.set
    /\ awaiting_preference = "location" =>
          (user_prefs.name.set /\ ~user_prefs.location.set)
    /\ BothSet => awaiting_preference = ABSENT

C2_Witness ==
    /\ awaiting_preference = "location"
    /\ user_prefs.name.set
    /\ last.op = "utterance"

\* C3: once both preferences are set they stay set, and no later response
\* of generate_response is or contains a preference question.
C3_NeverReasks ==
    /\ [][BothSet => BothSet']_vars
    /\ [][(BothSet /\ last'.op = "utterance") => ~HasQuestion(last'.response)]_vars

C3_Witness ==
    /\ BothSet
    /\ last.op = "utterance"
    /\ last.branch = "my_name_is"
    /\ user_prefs.name = Some(<<>>)

\* the branch the dispatch order of the claim selects
FirstMatch(st, prompt) ==
    LET lp == Lower(prompt)
    IN  IF st.awaiting # ABSENT THEN "pending"
        ELSE IF Contains(lp, KW_MY_NAME_IS) THEN "my_name_is"
        ELSE IF Contains(lp, KW_SET_LOCATION_TO) THEN "set_location_to"
        ELSE IF ~(st.prefs.name.set /\ st.prefs.location.set) THEN "guard"
        ELSE IF Contains(lp, KW_WEATHER) THEN "weather"
        ELSE IF Contains(lp, KW_TASKS) \/ Contains(lp, KW_TODO) THEN "tasks"
        ELSE IF Contains(lp, KW_WHO_AM_I) THEN "who_am_i"
        ELSE IF Contains(lp, KW_HELP) THEN "help"
        ELSE "fallback"

\* the kinds of response string each branch returns
BranchResponses ==
    [pending |-> {"preferences_updated"},
     my_name_is |-> {"preferences_updated"},
     set_location_to |-> {"preferences_updated"},
     guard |-> {"ask_name", "ask_location"},
     weather |-> {"weather_report", "weather_provider_error", "weather_exception"},
     tasks |-> {"tasks_header", "no_valid_tasks", "tasks_status_error",
                "tasks_invalid_format", "tasks_unexpected_format", "tasks_exception"},
     who_am_i |-> {"you_are"},
     help |-> {"help"},
     fallback |-> {"gen_text", "gen_error"}]

\* the external service each branch calls
BranchService ==
    [pending |-> "none", my_name_is |-> "none", set_location_to |-> "none",
     guard |-> "none", weather |-> "weather", tasks |-> "tasks",
     who_am_i |-> "none", help |-> "none", fallback |-> "gen"]

\* C4: generate_response executes exactly the first matching branch of the
\* fixed order: its response is of that branch's kind and the only external
\* call made is that branch's; a pending answer calls no lookup.
C4_FirstMatchWins ==
    [][last'.op = "utterance" =>
         LET b == FirstMatch(Current, last'.prompt)
         IN  /\ last'.branch = b
             /\ ~last'.raised
             /\ Head(last'.response).t \in BranchResponses[b]
             /\ IF BranchService[b] = "none" THEN last'.calls = <<>>
                ELSE /\ Len(last'.calls) = 1
                     /\ last'.calls[1].svc = BranchService[b]]_vars

C4_Witness ==
    /\ last.op = "utterance"
    /\ last.branch = "weather"
    /\ Contains(Lower(last.prompt), KW_WEATHER)
    /\ Contains(Lower(last.prompt), KW_TASKS)

\* C5 as stated: the clear-conversation action, with its rerun, leaves
\* messages empty and does not change the preferences.
C5_ClearLeavesEmpty ==
    [][last'.op = "clear" => (messages' = <<>> /\ user_prefs' = user_prefs)]_vars

\* C5 amended: the clear-conversation action, with its rerun, leaves messages
\* empty when a preference is set and holding only the name-question when
\* none is; a second clear in a row leaves the same messages; neither
\* changes the preferences.
C5_ClearIdempotent ==
    [][last'.op = "clear" =>
         /\ user_prefs' = user_prefs
         /\ messages' = IF NoneSet THEN <<Msg("assistant", NAME_QUESTION)>> ELSE <<>>
         /\ last'.again => messages' = messages]_vars

C5_Witness ==
    /\ last.op = "clear"
    /\ last.again
    /\ messages = <<>>
    /\ user_prefs.name.set

\* C6: a call of generate_response that takes the incomplete-preferences
\* guard, a keyword trigger or the generative fallback leaves the
\* preferences and the awaiting cursor as they were.
C6_ReadOnlyBranches ==
    [][(/\ last'.op = "utterance"
        /\ last'.branch \in {"guard", "weather", "tasks", "who_am_i", "help", "fallback"})
         => (user_prefs' = user_prefs /\ awaiting_preference' = awaiting_preference)]_vars

C6_Witness ==
    /\ last.op = "utterance"
    /\ last.branch = "weather"
    /\ last.calls[1].arg # PyStr(user_prefs.location)

ValidTasks(tasks) ==
    { i \in 1..Len(tasks) : i <= TaskLimit /\ tasks[i].isDict /\ tasks[i].hasContent }

\* C8: for a status-200 list, get_tasks returns the header followed by one
\* bullet, in order, for exactly the entries among the first 5 that are
\* records with a 'content' field, and the 'no valid tasks' message exactly
\* when there is none.
C8_TaskBullets ==
    (/\ last.calls # <<>>
     /\ last.calls[1].svc = "tasks"
     /\ last.out.kind = "body"
     /\ last.out.status = HTTP_OK
     /\ last.out.isList) =>
        LET tasks == last.out.tasks
            valid == ValidTasks(tasks)
            r     == last.response
        IN  IF valid = {}
            THEN r = <<Part("no_valid_tasks", <<>>)>>
            ELSE /\ Len(r) = 1 + Cardinality(valid)
                 /\ Len(r) <= 1 + TaskLimit
                 /\ r[1] = Part("tasks_header", <<>>)
                 /\ \A i \in valid :
                       r[1 + Cardinality({j \in valid : j <= i})]
                          = Part("bullet", tasks[i].content)

C8_Witness ==
    /\ last.op = "tasks"
    /\ last.out.isList
    /\ Len(last.out.tasks) = 6
    /\ ~last.out.tasks[2].isDict
    /\ ~last.out.tasks[4].hasContent
    /\ last.out.tasks[6].hasContent
    /\ Len(last.response) = 4

\* C9: a manual assertion runs only when awaiting is absent, leaves it
\* absent, sets the named preference and keeps the other one.
C9_ManualAssertion ==
    /\ [][(last'.op = "utterance" /\ last'.branch = "my_name_is") =>
            /\ awaiting_preference = ABSENT
            /\ awaiting_preference' = awaiting_preference
            /\ user_prefs'.location = user_prefs.location
            /\ user_prefs'.name.set]_vars
    /\ [][(last'.op = "utterance" /\ last'.branch = "set_location_to") =>
            /\ awaiting_preference = ABSENT
            /\ awaiting_preference' = awaiting_preference
            /\ user_prefs'.name = user_prefs.name
            /\ user_prefs'.location.set]_vars

C9_Witness ==
    /\ last.op = "utterance"
    /\ last.branch = "set_location_to"
    /\ user_prefs.location = Some(Lower(P_ROME))
    /\ user_prefs.name.set

\* C10: between turns awaiting is absent if and only if both preferences
\* are set; hence the incomplete-preferences guard never answers and a
\* manual assertion only runs when both preferences are already set.
C10_AbsentIffBothSet ==
    /\ [](awaiting_preference = ABSENT <=> BothSet)
    /\ [](last.branch # "guard")
    /\ [][last'.branch \in {"my_name_is", "set_location_to"} => BothSet]_vars

C10_Witness ==
    /\ awaiting_preference = ABSENT
    /\ BothSet
    /\ last.branch = "my_name_is"
    /\ last.prompt = KW_MY_NAME_IS \o SP \o KW_SET_LOCATION_TO \o SP \o KW_WEATHER

====
